---- MODULE Spec2Model ----
(***************************************************************************)
(* Model of flask_app.py: the /ask_ai handler get_response, the helpers    *)
(* format_response and db_tables, and the process-wide psycopg2 connection *)
(* that every request shares.                                              *)
(*                                                                         *)
(* Text is modelled as a sequence: prompts are sequences of tokens (words, *)
(* quotes, brackets, chunks of fixed template text), the completion of the *)
(* SQL model and the formatted result are sequences of characters.         *)
(***************************************************************************)
EXTENDS Integers, Sequences, FiniteSets, TLC

\* ------------------------------------------------------------------ bounds
MaxRows == 2        \* rows of a result set given to format_response
MaxCols == 2        \* columns of a row
MaxTables == 2      \* table names of a schema snapshot
MaxQueryLen == 2    \* words of a question
MaxCount == 2       \* the counters of executes and commits saturate here

\* ----------------------------------------------------------------- helpers
Min(a, b) == IF a < b THEN a ELSE b

SeqsUpTo(S, n) == UNION {[1..k -> S] : k \in 0..n}

Range(s) == {s[i] : i \in DOMAIN s}

NoDup(s) == \A i, j \in DOMAIN s : s[i] = s[j] => i = j

\* occurrences of the element x in the sequence s
Count(s, x) == Cardinality({i \in DOMAIN s : s[i] = x})

\* sub occurs in s as a contiguous run
Contains(s, sub) ==
    \E i \in 0..(Len(s) - Len(sub)) : SubSeq(s, i + 1, i + Len(sub)) = sub

RECURSIVE Flatten(_)
Flatten(ss) == IF ss = <<>> THEN <<>> ELSE Head(ss) \o Flatten(Tail(ss))

\* sep.join(parts), parts a sequence of sequences
RECURSIVE Join(_, _)
Join(parts, sep) ==
    IF parts = <<>> THEN <<>>
    ELSE IF Len(parts) = 1 THEN Head(parts)
    ELSE Head(parts) \o sep \o Join(Tail(parts), sep)

\* --------------------------------------------------------- format_response
\* A scalar of a result row: an integer, a string (its characters) or None.
IntVal(n) == [k |-> "int", n |-> n, s |-> <<>>]
StrVal(s) == [k |-> "str", n |-> 0, s |-> s]
NoneVal == [k |-> "none", n |-> 0, s |-> <<>>]

Digit(d) == <<"0", "1", "2", "3", "4", "5", "6", "7", "8", "9">>[d + 1]

RECURSIVE Digits(_)
Digits(n) == IF n < 10 THEN <<Digit(n)>> ELSE Digits(n \div 10) \o <<Digit(n % 10)>>

\* str(item)
Str(v) ==
    CASE v.k = "int" -> IF v.n < 0 THEN <<"-">> \o Digits(0 - v.n) ELSE Digits(v.n)
      [] v.k = "str" -> v.s
      [] OTHER -> <<"N", "o", "n", "e">>

ColSep == <<" ", "|", " ">>
RowSep == <<"\n", "\n">>

\* the mutant of RowText: the values of a row are put together with no
\* delimiter between them
RowTextNoColSep(row) == Flatten([i \in DOMAIN row |-> Str(row[i])]) \o RowSep

\* " | ".join([str(item) for item in row]) + "\n\n"
RowText(row) == Join([i \in DOMAIN row |-> Str(row[i])], ColSep) \o RowSep

\* the mutant of format_response: the rows joined by the row delimiter
format_response_joined(response) ==
    Join([i \in DOMAIN response |-> Join([j \in DOMAIN response[i] |-> Str(response[i][j])], ColSep)], RowSep)

format_response(response) ==
    Flatten([i \in DOMAIN response |-> RowText(response[i])])

\* ---------------------------------------------------------- prompt compiler
\* The table names that occur in the fixed text of the template, and the
\* words a question is made of.  "..." is the template text between two
\* occurrences of a table name.
template ==
    << "You are a PostgreSQL expert. [...] based on this user query:", "{query}",
       ". The database has the following tables:", "{tables}",
       ". Use only the table names and columns exactly as provided. [...] use the",
       "StateResource", "table to rank them by the relevant metric.",
       "The schema of the database is as follows:",
       "table", "Lga", "...", "State", "...", "LgaResource",
       "table", "State", "...", "Lga", "...", "StateResource",
       "table", "Category", "...", "SubCategory", "...", "ResourceCategory",
       "table", "ResourceCategory", "...", "Resource", "...", "Category",
       "table", "SubCategory", "...", "Category",
       "table", "Resource", "...", "StateResource", "...", "LgaResource", "...",
       "ResourceCategory",
       "table", "StateResource", "...", "Resource", "...", "State",
       "table", "LgaResource", "...", "Resource", "...", "Lga", "..." >>

compare_template ==
    << "Given a user query, sql code and corresponding result, Actual explanation to users. [...]",
       "query:", "{query}", "sql_code:", "{sql_code}", "sql_result:", "{sql_result}",
       "If the answer to the question is not in the sql result, [...] 7 - 10 being High" >>

\* the mutant of Format: the fields are left as they are
FormatNothing(tmpl, args) == tmpl

\* str.format: one pass over the template, every replacement field replaced by
\* the text of its argument; the arguments are not scanned again.
Format(tmpl, args) ==
    Flatten([i \in DOMAIN tmpl |->
                IF tmpl[i] \in DOMAIN args THEN args[tmpl[i]] ELSE <<tmpl[i]>>])

\* repr(name) of a table name: the name between single quotes
Repr(name) == <<"'", name, "'">>

\* str(tables) of the list of table names: "['a', 'b']"
ListStr(ts) == <<"[">> \o Join([i \in DOMAIN ts |-> Repr(ts[i])], <<", ">>) \o <<"]">>

\* template.format(query=query, tables=tables)
SqlPrompt(q, ts) == Format(template, ("{query}" :> q) @@ ("{tables}" :> ListStr(ts)))

\* compare_template.format(query=query, sql_code=generated_query, sql_result=response)
ComparePrompt(q, code, result) ==
    Format(compare_template,
           ("{query}" :> q) @@ ("{sql_code}" :> code) @@ ("{sql_result}" :> result))

\* ------------------------------------------------------------ SQL extraction
\* s[6:-3]
Slice6_3(s) == IF Len(s) - 3 > 6 THEN SubSeq(s, 7, Len(s) - 3) ELSE <<>>

\* The backquote character (a string cannot hold it: it is written by name).
BQ == "backquote"

Fence == <<BQ, BQ, BQ>>

Fenced(sql) == Fence \o <<"s", "q", "l">> \o sql \o Fence

\* What the SQL model may answer: a fenced statement the database accepts
\* ("Q"), a fenced statement it rejects ("X"), and the accepted statement
\* with no fence around it.
Completions == {Fenced(<<"\n", "Q", "\n">>), Fenced(<<"\n", "X", "\n">>), <<"Q">>}

\* What the explanation model may answer.
Explanations == {"Benue has the highest quantity.", "The question could not be processed."}

\* ---------------------------------------------------------------- database
\* The statement with its newlines dropped.
Stripped(q) == SelectSeq(q, LAMBDA c : c # "\n")

\* The database accepts one statement; every other one raises on execute,
\* the same way on every attempt.
Valid(q) == Stripped(q) = <<"Q">>

\* The rows the accepted statement may produce when it is executed.
ResultSets == {<<>>, << <<StrVal(<<"a">>), IntVal(5)>> >>}

\* ------------------------------------------------------------------ inputs
Requests == {"r1", "r2"}

Questions == {<<"which", "State">>, <<"yam">>}

\* tables = db_tables()
Catalog == <<"State", "StateResource", "Resource">>

\* ------------------------------------------------------------------- state
VARIABLES
    tables,           \* line 43: the module-level list of table names
    pending,          \* line 17, connection: the requests whose executed statement
                      \* is in the open transaction, neither committed nor
                      \* rolled back
    pc,               \* where each request is in get_response
    query,            \* line 173: the question of the request
    sql_prompt,       \* line 174: the synthesis prompt
    generated_query,  \* line 193: the synthesized statement
    cursorRows,       \* lines 195, 200: the result set held by the request's cursor
    response,         \* lines 201-202: the formatted result
    compare_prompt,   \* line 204: the explanation prompt
    explanation,      \* line 205: the text the explanation call returned
    done,             \* lines 197, 206: the loop flag
    ai_response,      \* line 210: the "ai_response" field of the returned object
    commits,          \* how many commits the request has made (saturating)
    ops               \* the calls of the request's current attempt, a raised
                      \* one marked "!"; a rollback starts the list again

vars == <<tables, pending, pc, query, sql_prompt, generated_query, cursorRows,
          response, compare_prompt, explanation, done, ai_response, commits, ops>>

\* what a request leaves alone when it only moves on
locals == <<query, sql_prompt, generated_query, cursorRows, response,
            compare_prompt, explanation, done, ai_response>>

\* The state after the module is loaded, tables being the list ts: no request
\* has arrived and the connection has no open transaction.
InitWith(ts) ==
    /\ tables = ts
    /\ pending = {}
    /\ pc = [r \in Requests |-> "idle"]
    /\ query = [r \in Requests |-> <<>>]
    /\ sql_prompt = [r \in Requests |-> <<>>]
    /\ generated_query = [r \in Requests |-> <<>>]
    /\ cursorRows = [r \in Requests |-> <<>>]
    /\ response = [r \in Requests |-> <<>>]
    /\ compare_prompt = [r \in Requests |-> <<>>]
    /\ explanation = [r \in Requests |-> ""]
    /\ done = [r \in Requests |-> FALSE]
    /\ ai_response = [r \in Requests |-> ""]
    /\ commits = [r \in Requests |-> 0]
    /\ ops = [r \in Requests |-> <<>>]

Init == InitWith(Catalog)

\* ----------------------------------------------------------------- actions
\* the mutant of LoopTest: the loop is left after one attempt, whatever done is
LoopTestOnce(d) == "return"

\* the mutant of LoopTest: a failed attempt asks the SQL model again
LoopTestResynth(d) == IF d THEN "return" ELSE "synth"

\* while not done: where the request goes from the loop test
LoopTest(d) == IF d THEN "return" ELSE "execute"

\* the mutant of Except: the handler goes round the loop without the rollback
ExceptNoRollback == "execute"

\* the mutant of Except: the handler gives the request up
ExceptGivesUp == "failed"

\* the except clause: every exception raised in the try block goes to the
\* rollback
Except == "rollback"

\* the mutant of Receive: compiling the prompt takes the first name off the
\* table list
ReceiveDropsTable(r, Qs) ==
    /\ pc[r] = "idle"
    /\ \E q \in Qs :
          /\ query' = [query EXCEPT ![r] = q]
          /\ sql_prompt' = [sql_prompt EXCEPT ![r] = SqlPrompt(q, tables)]
    /\ tables' = IF tables = <<>> THEN tables ELSE Tail(tables)
    /\ pc' = [pc EXCEPT ![r] = "synth"]
    /\ UNCHANGED <<pending, generated_query, cursorRows, response,
                   compare_prompt, explanation, done, ai_response, commits, ops>>

\* A request arrives with a question of Qs; line 174 compiles the prompt.
Receive(r, Qs) ==
    /\ pc[r] = "idle"
    /\ \E q \in Qs :
          /\ query' = [query EXCEPT ![r] = q]
          /\ sql_prompt' = [sql_prompt EXCEPT ![r] = SqlPrompt(q, tables)]
    /\ pc' = [pc EXCEPT ![r] = "synth"]
    /\ UNCHANGED <<tables, pending, generated_query, cursorRows, response,
                   compare_prompt, explanation, done, ai_response, commits, ops>>

\* Line 193: the SQL model is given the prompt, answers, and the fence is
\* sliced off.
SynthOk(r, Cs) ==
    /\ pc[r] = "synth"
    /\ \E c \in Cs :
          generated_query' = [generated_query EXCEPT ![r] = Slice6_3(c)]
    /\ pc' = [pc EXCEPT ![r] = "cursor"]
    /\ UNCHANGED <<tables, pending, query, sql_prompt, cursorRows, response,
                   compare_prompt, explanation, done, ai_response, commits, ops>>

\* the mutant of SynthFail: the failure is handled with a rollback of the
\* connection before it is raised again
SynthFailRollsBack(r) ==
    /\ pc[r] = "synth"
    /\ pending' = {}
    /\ pc' = [pc EXCEPT ![r] = "failed"]
    /\ UNCHANGED <<tables, locals, commits, ops>>

\* Line 193: the SQL model is given the prompt and the call raises; nothing
\* catches it.
SynthFail(r) ==
    /\ pc[r] = "synth"
    /\ pc' = [pc EXCEPT ![r] = "failed"]
    /\ UNCHANGED <<tables, pending, locals, commits, ops>>

\* Lines 195-198: the request's own cursor, done = False, the first loop test.
OpenCursor(r) ==
    /\ pc[r] = "cursor"
    /\ done' = [done EXCEPT ![r] = FALSE]
    /\ ops' = [ops EXCEPT ![r] = <<"cursor">>]
    /\ pc' = [pc EXCEPT ![r] = LoopTest(FALSE)]
    /\ UNCHANGED <<tables, pending, query, sql_prompt, generated_query, cursorRows,
                   response, compare_prompt, explanation, ai_response, commits>>

\* the mutant of ExecuteOk: one cursor for the whole process, so the rows of
\* the statement replace what every request's cursor holds
ExecuteOkSharedCursor(r, Rs) ==
    /\ pc[r] = "execute"
    /\ Valid(generated_query[r])
    /\ \E rows \in Rs : cursorRows' = [o \in Requests |-> rows]
    /\ pending' = pending \cup {r}
    /\ ops' = [ops EXCEPT ![r] = <<"execute">>]
    /\ pc' = [pc EXCEPT ![r] = "fetch"]
    /\ UNCHANGED <<tables, query, sql_prompt, generated_query, response,
                   compare_prompt, explanation, done, ai_response, commits>>

\* Line 200: the database accepts the statement; it joins the open transaction
\* of the connection and the cursor holds its rows, one of the result sets Rs.
ExecuteOk(r, Rs) ==
    /\ pc[r] = "execute"
    /\ Valid(generated_query[r])
    /\ \E rows \in Rs : cursorRows' = [cursorRows EXCEPT ![r] = rows]
    /\ pending' = pending \cup {r}
    /\ ops' = [ops EXCEPT ![r] = <<"execute">>]
    /\ pc' = [pc EXCEPT ![r] = "fetch"]
    /\ UNCHANGED <<tables, query, sql_prompt, generated_query, response,
                   compare_prompt, explanation, done, ai_response, commits>>

\* Line 200: execute raises (a statement the database rejects, or a transient
\* error on one it accepts).
ExecuteFail(r) ==
    /\ pc[r] = "execute"
    /\ ops' = [ops EXCEPT ![r] = <<"execute!">>]
    /\ pc' = [pc EXCEPT ![r] = Except]
    /\ UNCHANGED <<tables, pending, locals, commits>>

\* the mutant of FetchOk: the rows are fetched and response is not assigned
FetchOkStale(r) ==
    /\ pc[r] = "fetch"
    /\ ops' = [ops EXCEPT ![r] = Append(@, "fetchall")]
    /\ pc' = [pc EXCEPT ![r] = "commit"]
    /\ UNCHANGED <<tables, pending, locals, commits>>

\* Lines 201-202: the rows are fetched from the cursor and formatted.
FetchOk(r) ==
    /\ pc[r] = "fetch"
    /\ response' = [response EXCEPT ![r] = format_response(cursorRows[r])]
    /\ ops' = [ops EXCEPT ![r] = Append(@, "fetchall")]
    /\ pc' = [pc EXCEPT ![r] = "commit"]
    /\ UNCHANGED <<tables, pending, query, sql_prompt, generated_query, cursorRows,
                   compare_prompt, explanation, done, ai_response, commits>>

\* Line 201: fetchall raises.
FetchFail(r) ==
    /\ pc[r] = "fetch"
    /\ ops' = [ops EXCEPT ![r] = Append(@, "fetchall!")]
    /\ pc' = [pc EXCEPT ![r] = Except]
    /\ UNCHANGED <<tables, pending, locals, commits>>

\* Line 203: connection.commit() commits the open transaction of the shared
\* connection, whoever executed its statements.
CommitOk(r) ==
    /\ pc[r] = "commit"
    /\ pending' = {}
    /\ commits' = [commits EXCEPT ![r] = Min(@ + 1, MaxCount)]
    /\ ops' = [ops EXCEPT ![r] = Append(@, "commit")]
    /\ pc' = [pc EXCEPT ![r] = "explain"]
    /\ UNCHANGED <<tables, locals>>

\* Line 203: commit raises.
CommitFail(r) ==
    /\ pc[r] = "commit"
    /\ ops' = [ops EXCEPT ![r] = Append(@, "commit!")]
    /\ pc' = [pc EXCEPT ![r] = Except]
    /\ UNCHANGED <<tables, pending, locals, commits>>

\* Lines 204-206: the explanation prompt, the explanation call, done = True and
\* the loop test that follows.
ExplainOk(r) ==
    /\ pc[r] = "explain"
    /\ compare_prompt' = [compare_prompt EXCEPT ![r] =
                             ComparePrompt(query[r], generated_query[r], response[r])]
    /\ \E t \in Explanations : explanation' = [explanation EXCEPT ![r] = t]
    /\ done' = [done EXCEPT ![r] = TRUE]
    /\ ops' = [ops EXCEPT ![r] = Append(@, "explain")]
    /\ pc' = [pc EXCEPT ![r] = LoopTest(TRUE)]
    /\ UNCHANGED <<tables, pending, query, sql_prompt, generated_query, cursorRows,
                   response, ai_response, commits>>

\* Lines 204-205: the explanation call raises, inside the try block.
ExplainFail(r) ==
    /\ pc[r] = "explain"
    /\ compare_prompt' = [compare_prompt EXCEPT ![r] =
                             ComparePrompt(query[r], generated_query[r], response[r])]
    /\ ops' = [ops EXCEPT ![r] = Append(@, "explain!")]
    /\ pc' = [pc EXCEPT ![r] = Except]
    /\ UNCHANGED <<tables, pending, query, sql_prompt, generated_query, cursorRows,
                   response, explanation, done, ai_response, commits>>

\* the mutant of Rollback: the handler leaves the transaction open
RollbackLeavesOpen(r) ==
    /\ pc[r] = "rollback"
    /\ ops' = [ops EXCEPT ![r] = <<"rollback">>]
    /\ pc' = [pc EXCEPT ![r] = LoopTest(done[r])]
    /\ UNCHANGED <<tables, pending, locals, commits>>

\* Lines 208-209 and the loop test: connection.rollback() rolls back the open
\* transaction of the shared connection, whoever executed its statements.
Rollback(r) ==
    /\ pc[r] = "rollback"
    /\ pending' = {}
    /\ ops' = [ops EXCEPT ![r] = <<"rollback">>]
    /\ pc' = [pc EXCEPT ![r] = LoopTest(done[r])]
    /\ UNCHANGED <<tables, locals, commits>>

\* Line 210.
Return(r) ==
    /\ pc[r] = "return"
    /\ ai_response' = [ai_response EXCEPT ![r] = explanation[r]]
    /\ pc' = [pc EXCEPT ![r] = "returned"]
    /\ UNCHANGED <<tables, pending, query, sql_prompt, generated_query, cursorRows,
                   response, compare_prompt, explanation, done, commits, ops>>

\* what a request does once it has arrived
Run(r, Cs, Rs) ==
    \/ SynthOk(r, Cs)
    \/ SynthFail(r)
    \/ OpenCursor(r)
    \/ ExecuteOk(r, Rs)
    \/ ExecuteFail(r)
    \/ FetchOk(r)
    \/ FetchFail(r)
    \/ CommitOk(r)
    \/ CommitFail(r)
    \/ ExplainOk(r)
    \/ ExplainFail(r)
    \/ Rollback(r)
    \/ Return(r)

Step(r, Qs, Cs, Rs) == Receive(r, Qs) \/ Run(r, Cs, Rs)

Next == \E r \in Requests : Step(r, Questions, Completions, ResultSets)

Spec == Init /\ [][Next]_vars

\* The threads that serve the requests are scheduled fairly: a request that
\* has arrived and can take a step takes one (whether a request arrives is up
\* to the caller).  The liveness claims are checked with one question and with the two fenced
\* completions.
FairQuestions == {<<"yam">>}

FairCompletions == {Fenced(<<"\n", "Q", "\n">>), Fenced(<<"\n", "X", "\n">>)}

FairNext == \E r \in Requests : Step(r, FairQuestions, FairCompletions, ResultSets)

FairSpec ==
    /\ Init
    /\ [][FairNext]_vars
    /\ \A r \in Requests : WF_vars(Run(r, FairCompletions, ResultSets))

\* The prompt compiler over every schema snapshot and every question: the
\* module is loaded with any list of distinct table names, and the requests
\* arrive with any question.
TableNames == {"State", "StateResource", "_prisma_migrations"}

Snapshots == {ts \in SeqsUpTo(TableNames, MaxTables) : NoDup(ts)}

Words == {"yam", "State", "{tables}"}

AllQuestions == SeqsUpTo(Words, MaxQueryLen)

PromptInit == \E ts \in Snapshots : InitWith(ts)

PromptNext == \E r \in Requests : Receive(r, AllQuestions)

PromptSpec == PromptInit /\ [][PromptNext]_vars

\* The result formatter over every result set: one request runs up to the
\* formatting of the rows its execute produced, the database producing any
\* result set.
Scalars == {IntVal(12), NoneVal, StrVal(<<"a", "\n", "\n", "b">>)}

AllRows == SeqsUpTo(Scalars, MaxCols)

AllResultSets == SeqsUpTo(AllRows, MaxRows)

FormatNext ==
    \/ Receive("r1", FairQuestions)
    \/ SynthOk("r1", {Fenced(<<"\n", "Q", "\n">>)})
    \/ OpenCursor("r1")
    \/ ExecuteOk("r1", AllResultSets)
    \/ FetchOk("r1")

FormatSpec == Init /\ [][FormatNext]_vars


\* The SQL extraction over the answers the SQL model may give: the statement
\* with or without the opening fence and its language tag, with or without
\* the closing fence, and with text ("x" is a character of it) after it.  The
\* requests run up to the execute of the extracted statement.
MaxTrail == 3       \* characters after the closing fence

Bodies == {<<"\n", "Q", "\n">>, <<"\n", "X", "\n">>, <<"Q">>}

Openers == {Fence \o <<"s", "q", "l">>, Fence, <<>>}

Closers == {Fence, <<>>}

Trailers == SeqsUpTo({"x"}, MaxTrail)

AllCompletions ==
    {o \o b \o c \o t : o \in Openers, b \in Bodies, c \in Closers, t \in Trailers}

ExtractStep(r) ==
    \/ Receive(r, FairQuestions)
    \/ SynthOk(r, AllCompletions)
    \/ OpenCursor(r)
    \/ ExecuteOk(r, ResultSets)
    \/ ExecuteFail(r)
    \/ Rollback(r)

ExtractNext == \E r \in Requests : ExtractStep(r)

ExtractSpec == Init /\ [][ExtractNext]_vars

\* ---------------------------------------------------------------- claims
LastOp(r) == IF ops[r] = <<>> THEN "" ELSE ops[r][Len(ops[r])]

Raised(r) == LastOp(r) \in {"execute!", "fetchall!", "commit!", "explain!"}

Attempt == <<"execute", "fetchall", "commit", "explain">>

\* C1: a request whose statement the database rejects on every attempt
\* eventually ends in failure (the retry budget is finite).
C1_BoundedRetry ==
    \A r \in Requests :
        (pc[r] = "execute" /\ ~Valid(generated_query[r])) ~> (pc[r] = "failed")

\* C2: a rollback or a commit issued by one request acts on no statement that
\* the other request has executed and not yet committed.
C2_NoInterference ==
    [][\A r \in Requests : (Rollback(r) \/ CommitOk(r)) => pending \subseteq {r}]_vars

\* C3: a request whose explanation call has raised is ended by that failure.
C3_ExplainFailureEndsRequest ==
    \A r \in Requests : LastOp(r) = "explain!" => pc[r] = "failed"

\* C4: a request commits at most once, and issues no execute after a commit.
C4_CommitOnce ==
    \A r \in Requests :
        /\ commits[r] <= 1
        /\ ops[r] \in {<<"execute">>, <<"execute!">>} => commits[r] = 0

C8_ResponseFromCommittedAttempt ==
    \A r \in Requests :
        pc[r] = "returned" =>
            /\ ai_response[r] = explanation[r]
            /\ explanation[r] \in Explanations
            /\ ops[r] = Attempt
            /\ response[r] = format_response(cursorRows[r])
            /\ compare_prompt[r] =
                   ComparePrompt(query[r], generated_query[r], format_response(cursorRows[r]))

C8_Witness ==
    \E r \in Requests :
        pc[r] = "returned" /\ commits[r] = 2 /\ cursorRows[r] # <<>> /\ ai_response[r] # ""

\* text.split("\n\n"): the pieces of the text between the row delimiters,
\* found from the left; cur is the piece being read.
RECURSIVE Split(_, _)
Split(text, cur) ==
    IF text = <<>> THEN <<cur>>
    ELSE IF Len(text) >= 2 /\ SubSeq(text, 1, 2) = RowSep
         THEN <<cur>> \o Split(SubSeq(text, 3, Len(text)), <<>>)
         ELSE Split(Tail(text), Append(cur, Head(text)))

\* the row blocks of a formatted text: the pieces that a row delimiter ends
RowBlocks(text) == LET pieces == Split(text, <<>>) IN SubSeq(pieces, 1, Len(pieces) - 1)

\* the text of a row before its delimiter
RowLine(row) == Join([j \in DOMAIN row |-> Str(row[j])], ColSep)

NoNewline(rows) ==
    \A i \in DOMAIN rows : \A j \in DOMAIN rows[i] : "\n" \notin Range(Str(rows[i][j]))

BlocksAreRows(rows, text) ==
    /\ rows = <<>> => text = <<>>
    /\ Len(RowBlocks(text)) = Len(rows)
    /\ \A i \in DOMAIN rows : RowBlocks(text)[i] = RowLine(rows[i])

\* C9 as stated: the formatted text of n rows has exactly n row blocks, the
\* rows in their order, and the text of no rows is empty.
C9_BlockPerRow ==
    \A r \in Requests : pc[r] = "commit" => BlocksAreRows(cursorRows[r], response[r])

\* C9 amended: the same, for rows none of whose values has a newline in its
\* text.
C9_BlockPerRowNoNewline ==
    \A r \in Requests :
        (pc[r] = "commit" /\ NoNewline(cursorRows[r]))
            => BlocksAreRows(cursorRows[r], response[r])

C9_Witness ==
    \E r \in Requests :
        /\ pc[r] = "commit"
        /\ NoNewline(cursorRows[r])
        /\ Len(cursorRows[r]) >= 2
        /\ Len(cursorRows[r][1]) >= 2
        /\ cursorRows[r][1] # cursorRows[r][2]

\* C10 as stated: the synthesis prompt holds every table name of the snapshot
\* exactly once, and the question verbatim.
C10_TablesOnceQuestionVerbatim ==
    \A r \in Requests :
        pc[r] = "synth" =>
            /\ \A i \in DOMAIN tables : Count(sql_prompt[r], tables[i]) = 1
            /\ Contains(sql_prompt[r], query[r])

\* C10 amended: the synthesis prompt holds the question verbatim and the
\* rendered table list, in which every table name of the snapshot occurs
\* once; the prompt holds the name once more for every occurrence of it in the
\* fixed text of the template and in the question.
C10_TableListQuestionVerbatim ==
    \A r \in Requests :
        pc[r] = "synth" =>
            /\ Contains(sql_prompt[r], query[r])
            /\ Contains(sql_prompt[r], ListStr(tables))
            /\ \A i \in DOMAIN tables :
                  /\ Count(ListStr(tables), tables[i]) = 1
                  /\ Count(sql_prompt[r], tables[i])
                        = 1 + Count(template, tables[i]) + Count(query[r], tables[i])

C10_Witness ==
    \E r \in Requests :
        /\ pc[r] = "synth"
        /\ Len(tables) >= 2
        /\ "_prisma_migrations" \in Range(tables)
        /\ "State" \in Range(tables)
        /\ "State" \in Range(query[r])

\* the statements extracted from the correctly fenced completions
FencedStatements == {Slice6_3(Fenced(b)) : b \in Bodies}

\* C11: extracting again from a statement that was extracted from a correctly
\* fenced completion gives the same statement.
C11_ExtractionIdempotent ==
    \A r \in Requests :
        (pc[r] = "cursor" /\ generated_query[r] \in FencedStatements)
            => Slice6_3(generated_query[r]) = generated_query[r]

\* C12: the statement passed to execute holds no code fence.
C12_NoFenceInStatement ==
    \A r \in Requests : pc[r] = "execute" => ~Contains(generated_query[r], Fence)

\* C13: a request that has left the synthesis call never makes it again and
\* its statement never changes, whatever the attempts; the explanation prompt
\* holds that statement.
C13_StatementFixed ==
    /\ [](\A r \in Requests :
             pc[r] \in {"return", "returned"} =>
                 compare_prompt[r] = ComparePrompt(query[r], generated_query[r], response[r]))
    /\ [][\A r \in Requests :
             /\ pc[r] # "synth" => generated_query'[r] = generated_query[r]
             /\ pc[r] \notin {"idle", "synth"} => pc'[r] # "synth"]_vars

C13_Witness ==
    \E r \in Requests :
        /\ pc[r] = "explain" /\ commits[r] = 2
        /\ generated_query[r] = <<"\n", "Q", "\n">>

\* a call of the request's attempt raises
Failure(r) == ExecuteFail(r) \/ FetchFail(r) \/ CommitFail(r) \/ ExplainFail(r)

\* C14: if the calls of a request raise only finitely often, then from every
\* execute the request comes to return the response of a whole attempt.
C14_TransientFailuresSucceed ==
    \A r \in Requests :
        (<>[][~Failure(r)]_vars)
            => ((pc[r] = "execute") ~> (pc[r] = "returned" /\ ops[r] = Attempt))

C14_Witness ==
    \E r \in Requests :
        pc[r] = "returned" /\ ops[r] = Attempt /\ commits[r] = 2 /\ done[r]

\* C15: a request that failed in the synthesis call has made no call on the
\* connection (no cursor, execute, commit or rollback), and its failure left
\* the open transaction of the connection as it was.
C15_SynthFailureTouchesNoConnection ==
    /\ [](\A r \in Requests :
             pc[r] = "failed" =>
                 /\ ops[r] = <<>> /\ commits[r] = 0
                 /\ cursorRows[r] = <<>> /\ generated_query[r] = <<>>
                 /\ r \notin pending)
    /\ [][\A r \in Requests :
             (pc[r] # "failed" /\ pc'[r] = "failed") => pending' = pending]_vars

C15_Witness ==
    \E r, o \in Requests : pc[r] = "failed" /\ ops[r] = <<>> /\ pending = {o}

\* the rows' texts, in row order
RowLines(rows) == [i \in DOMAIN rows |-> RowLine(rows[i])]

\* C16 as stated: the formatted text is the rows' texts joined by the row
\* delimiter, which stands between two rows and not after the last one.
C16_RowsJoinedByDelimiter ==
    \A r \in Requests :
        pc[r] = "commit" => response[r] = Join(RowLines(cursorRows[r]), RowSep)

\* C16 amended: the formatted text is the rows' texts joined by the row
\* delimiter and, when there is a row, one more row delimiter after the last.
C16_RowsEndedByDelimiter ==
    \A r \in Requests :
        pc[r] = "commit" =>
            response[r] = Join(RowLines(cursorRows[r]), RowSep)
                              \o (IF cursorRows[r] = <<>> THEN <<>> ELSE RowSep)

C16_Witness ==
    \E r \in Requests :
        /\ pc[r] = "commit"
        /\ Len(cursorRows[r]) >= 2
        /\ Len(cursorRows[r][2]) >= 2
        /\ cursorRows[r][2][1] # cursorRows[r][2][2]

\* C17: no step changes the table list loaded at startup, and the prompt of
\* every request that has arrived is the one compiled from that list, whether
\* the request succeeded, was retried or failed.
C17_TablesReadOnly ==
    /\ [][tables' = tables]_vars
    /\ [](/\ tables = Catalog
          /\ \A r \in Requests :
                pc[r] # "idle" => sql_prompt[r] = SqlPrompt(query[r], Catalog))

C17_Witness ==
    \E r, o \in Requests :
        /\ pc[r] = "returned" /\ commits[r] = 2
        /\ pc[o] = "failed"
        /\ tables = Catalog /\ Len(tables) >= 2
        /\ query[r] # query[o]

\* C18: the rows a request's cursor holds change only when that request
\* executes its own statement, and the text the request goes on with after
\* the fetch is the formatting of those rows, whatever the other request
\* executes in between.
C18_OwnCursorRows ==
    /\ [](\A r \in Requests :
             pc[r] \in {"commit", "explain"} =>
                 response[r] = format_response(cursorRows[r]))
    /\ [][\A r \in Requests :
             cursorRows'[r] # cursorRows[r] =>
                 /\ pc[r] = "execute" /\ pc'[r] = "fetch"
                 /\ Valid(generated_query[r])]_vars

C18_Witness ==
    \E r, o \in Requests :
        /\ pc[r] = "commit" /\ pc[o] = "commit"
        /\ {r, o} \subseteq pending
        /\ cursorRows[r] = <<>> /\ cursorRows[o] # <<>>
        /\ response[r] = <<>> /\ response[o] # <<>>

====
